---- MODULE Spec2Model ----
(***************************************************************************)
(* Model of the scan orchestrator of fty-discovery-ng                      *)
(* (server/src/jobs/auto-discovery.cpp): AutoDiscovery::start / stop, the  *)
(* per-address scan task, the status counters guarded by m_mutex and the   *)
(* detached scan-check loop.                                                *)
(*                                                                         *)
(* Every critical section of m_mutex is one action.  Code that runs        *)
(* without the mutex is cut at the calls that other threads can observe.   *)
(*                                                                         *)
(* fty::ThreadPool is a library: the model keeps its queue of pending      *)
(* tasks, the tasks its workers are running and its stop flag.             *)
(*  - stop(Immedialy) drops the queued tasks; a task that is already       *)
(*    running goes on to its end (scan() has no cancellation point).       *)
(*  - m_poolScan.reset(p) stores p and then destroys the replaced pool;    *)
(*    the destructor returns once the workers of that pool have ended, so  *)
(*    its running tasks finish, and its queued tasks run or are dropped,   *)
(*    before start() goes on to readConfig.                                *)
(***************************************************************************)
EXTENDS Integers, Sequences, FiniteSets, TLC

\* ---------------------------------------------------------------- bounds
MaxStarts     == 2      \* start() calls that pass the state check
MaxDiscovered == 2      \* successful publishes counted per behaviour
MaxTotal      == 14     \* address counts drawn for the progress function
MaxExt        == 2      \* maps in the ext list given to updateExt()

\* ------------------------------------------------------------- constants
SCAN_MIN_NUM_THREAD == 2

Callers  == {"c1", "c2"}
SubTypes == {"ups", "epdu", "sts", "sensor", "rack"}
PollScanMaxValues == {1, 3}

\* commands::scan::status::Status
UNKNOWN           == "UNKNOWN"
IN_PROGRESS       == "IN_PROGRESS"
TERMINATED        == "TERMINATED"
CANCELLED_BY_USER == "CANCELLED_BY_USER"

\* ConfigDiscovery::Discovery::Type is "IP", "MULTI", "FULL" or "LOCAL";
\* "OTHER" is any value outside the enum

\* address::AddressParser::getRangeIp: the range "bad" does not parse
RangeIp(range) ==
    IF range = "net3" THEN [ok |-> TRUE, list |-> <<3>>]
    ELSE [ok |-> FALSE, list |-> <<>>]

\* address::AddressParser::getLocalRangeIp depends on the host's interfaces
LocalRangeIp == {[ok |-> FALSE, list |-> <<>>], [ok |-> TRUE, list |-> <<1>>]}

\* commands::scan::start::In, the part readConfig and scan read: the
\* discovery type, the addresses and ranges, the protocol filter and the
\* credential documents
Requests ==
    { [type |-> "IP",    ips |-> <<>>,     scans |-> <<>>, protocols |-> <<>>, documents |-> <<>>],
      [type |-> "IP",    ips |-> <<1, 2>>, scans |-> <<>>, protocols |-> <<>>, documents |-> <<>>],
      [type |-> "MULTI", ips |-> <<>>,     scans |-> <<>>, protocols |-> <<>>, documents |-> <<>>],
      [type |-> "MULTI", ips |-> <<>>,     scans |-> <<"bad", "net3">>, protocols |-> <<>>, documents |-> <<>>],
      [type |-> "FULL",  ips |-> <<>>,     scans |-> <<>>, protocols |-> <<>>, documents |-> <<>>],
      [type |-> "FULL",  ips |-> <<1>>,    scans |-> <<"net3">>, protocols |-> <<>>, documents |-> <<>>],
      [type |-> "LOCAL", ips |-> <<>>,     scans |-> <<>>, protocols |-> <<>>, documents |-> <<>>],
      [type |-> "OTHER", ips |-> <<1>>,    scans |-> <<>>, protocols |-> <<>>, documents |-> <<>>] }

\* the requests two concurrent callers are driven with: an empty IP list, two
\* addresses, and the local subnet (no address or one)
ScanRequests ==
    { [type |-> "IP",    ips |-> <<>>,     scans |-> <<>>, protocols |-> <<>>, documents |-> <<>>],
      [type |-> "IP",    ips |-> <<1, 2>>, scans |-> <<>>, protocols |-> <<>>, documents |-> <<>>],
      [type |-> "LOCAL", ips |-> <<>>,     scans |-> <<>>, protocols |-> <<>>, documents |-> <<>>] }

NoRequest == [type |-> "NONE", ips |-> <<>>, scans |-> <<>>, protocols |-> <<>>, documents |-> <<>>]

VARIABLES
    m_statusDiscovery,     \* state, ups, epdu, sts, sensors, discovered, progress
    m_params,              \* the stored request
    m_listIpAddress,       \* addresses still to dispatch
    m_listIpAddressNb,     \* total number of addresses of the run
    m_listIpAddressCount,  \* addresses whose task has not finished yet
    m_poolScan,            \* the pool m_poolScan points to
    oldPending,            \* queue of a pool that is being destroyed
    active,                \* tasks running on a worker thread
    pollScanMax,           \* Config::instance().pollScanMax
    callers,               \* threads calling start() / stop()
    watchdogs,             \* detached scan-check threads
    ret,                   \* what the last step returned to a caller of start() or stop()
    nbStart,               \* start() calls that passed the state check
    call                   \* a call of Protocols::run() or of updateExt() in progress

vars == <<m_statusDiscovery, m_params, m_listIpAddress, m_listIpAddressNb,
          m_listIpAddressCount, m_poolScan, oldPending, active, pollScanMax,
          callers, watchdogs, ret, nbStart, call>>

\* --------------------------------------------------------------- helpers
RECURSIVE ExpandScans(_)
\* readConfig's loop over the ranges: a range that fails is logged and skipped
ExpandScans(scans) ==
    IF scans = <<>> THEN <<>>
    ELSE LET r == RangeIp(Head(scans))
         IN  (IF r.ok THEN r.list ELSE <<>>) \o ExpandScans(Tail(scans))

\* readConfig(in): the address list it builds and the result it returns.
\* fty::unexpected(...) in the empty-list and bad-type branches is built and
\* dropped (no return), so the function goes on and returns success.
ReadConfig(in, local) ==
    LET list ==
          IF in.type = "IP" THEN in.ips
          ELSE IF in.type = "MULTI" THEN ExpandScans(in.scans)
          ELSE IF in.type = "FULL" THEN in.ips \o ExpandScans(in.scans)
          ELSE IF in.type = "LOCAL" THEN (IF local.ok THEN local.list ELSE <<>>)
          ELSE <<>>
    IN  [ok |-> TRUE, list |-> list]

\* The request is one the specification calls invalid
InvalidRequest(in) ==
    \/ in.type = "IP" /\ in.ips = <<>>
    \/ in.type = "MULTI" /\ in.scans = <<>>
    \/ in.type = "FULL" /\ in.ips = <<>> /\ in.scans = <<>>
    \/ in.type \notin {"IP", "MULTI", "FULL", "LOCAL"}

\* statusDiscoveryInit
StatusDiscoveryInit ==
    [state |-> UNKNOWN, ups |-> 0, epdu |-> 0, sts |-> 0, sensors |-> 0,
     discovered |-> 0, progress |-> 0]

\* statusDiscoveryReset
StatusDiscoveryReset ==
    [state |-> IN_PROGRESS, ups |-> 0, epdu |-> 0, sts |-> 0, sensors |-> 0,
     discovered |-> 0, progress |-> 0]

\* a counter update that forgets the total for sensors
UpdateStatusDiscoveryCounters_Mut(s, deviceSubType) ==
    IF deviceSubType = "ups"
    THEN [s EXCEPT !.ups = @ + 1, !.discovered = @ + 1]
    ELSE IF deviceSubType = "epdu"
    THEN [s EXCEPT !.epdu = @ + 1, !.discovered = @ + 1]
    ELSE IF deviceSubType = "sts"
    THEN [s EXCEPT !.sts = @ + 1, !.discovered = @ + 1]
    ELSE IF deviceSubType = "sensor"
    THEN [s EXCEPT !.sensors = @ + 1]
    ELSE [s EXCEPT !.discovered = @ + 1]

\* updateStatusDiscoveryCounters(deviceSubType)
UpdateStatusDiscoveryCounters(s, deviceSubType) ==
    IF deviceSubType = "ups"
    THEN [s EXCEPT !.ups = @ + 1, !.discovered = @ + 1]
    ELSE IF deviceSubType = "epdu"
    THEN [s EXCEPT !.epdu = @ + 1, !.discovered = @ + 1]
    ELSE IF deviceSubType = "sts"
    THEN [s EXCEPT !.sts = @ + 1, !.discovered = @ + 1]
    ELSE IF deviceSubType = "sensor"
    THEN [s EXCEPT !.sensors = @ + 1, !.discovered = @ + 1]
    ELSE s

\* The address counters are unsigned.  A counter is held as the residue r of
\* its value modulo 2^w: r >= 0 is the value r, r < 0 is the value 2^w + r
\* (the counter has wrapped below zero).  Subtraction, decrement and
\* multiplication are exact on residues.
Wrapped(r) == r < 0

\* the value of progress updateStatusDiscoveryProgress computes from the
\* counters nb and count (count already decremented)
ProgressOf(nb, count) ==
    IF nb # 0
    THEN LET done == nb - count        \* unsigned nb - count
             quot == IF Wrapped(done) THEN 101   \* (2^w + done) * 100 / nb > 100
                     ELSE (100 * done) \div nb   \* integer division, round() of an integer
         IN  IF quot > 100 THEN 100 ELSE quot
    ELSE 100

\* ------------------------------------------------------------------ Init
EmptyPool(n) == [pending |-> <<>>, stopped |-> FALSE, threads |-> n]

\* AutoDiscovery::init
PoolOfInit(cfgMax) ==
    EmptyPool(IF cfgMax < SCAN_MIN_NUM_THREAD THEN SCAN_MIN_NUM_THREAD ELSE cfgMax)

Idle == [pc |-> "idle", in |-> NoRequest, run |-> 0]

\* what a step returns to the caller of start() or stop(): NoReturn when the
\* step is not a return
NoReturn       == [op |-> "none",  val |-> "none"]
StartOk        == [op |-> "start", val |-> "ok"]
ScanInProgress == [op |-> "start", val |-> "Scan in progress"]
BadInput       == [op |-> "start", val |-> "Bad input parameter"]
StopOk         == [op |-> "stop",  val |-> "ok"]
NoScan         == [op |-> "stop",  val |-> "No scan in progress"]

\* no call of the probe or of updateExt() is in progress
NoCall == [fn |-> "none"]

Init ==
    /\ pollScanMax \in PollScanMaxValues
    /\ m_poolScan = PoolOfInit(pollScanMax)
    /\ m_statusDiscovery = StatusDiscoveryInit
    /\ m_params = NoRequest
    /\ m_listIpAddress = <<>>
    /\ m_listIpAddressNb = 0
    /\ m_listIpAddressCount = 0
    /\ oldPending = <<>>
    /\ active = {}
    /\ callers = [c \in Callers |-> Idle]
    /\ watchdogs = {}
    /\ ret = NoReturn
    /\ nbStart = 0
    /\ call = NoCall

\* --------------------------------------------------------------- start()
SetCaller(c, pc) ==
    [callers EXCEPT ![c].pc = pc, ![c].in = IF pc = "idle" THEN NoRequest ELSE @]

\* a start() that takes a cancelled scan for a running one
StartCheckPasses_Mut(state) == state \in {UNKNOWN, TERMINATED}

\* start(), line 502: the state check under m_mutex
StartCheckPasses(state) == state # IN_PROGRESS

\* start(), lines 501-503 and 537-540

StartCheck(c, in) ==
    /\ callers[c].pc = "idle"
    /\ IF StartCheckPasses(m_statusDiscovery.state)
       THEN /\ nbStart < MaxStarts
            /\ nbStart' = nbStart + 1
            /\ callers' = [callers EXCEPT ![c] =
                   [pc |-> "start_reset", in |-> in, run |-> nbStart + 1]]
            /\ ret' = NoReturn
       ELSE /\ ret' = ScanInProgress
            /\ UNCHANGED <<callers, nbStart>>
    /\ UNCHANGED <<m_statusDiscovery, m_params, m_listIpAddress, m_listIpAddressNb,
                   m_listIpAddressCount, m_poolScan, oldPending, active,
                   pollScanMax, watchdogs, call>>

\* start(), lines 506-514: m_params = in; statusDiscoveryReset()
StartReset(c) ==
    /\ callers[c].pc = "start_reset"
    /\ m_params' = callers[c].in
    /\ m_statusDiscovery' = StatusDiscoveryReset
    /\ callers' = SetCaller(c, "start_pool")
    /\ ret' = NoReturn
    /\ UNCHANGED <<m_listIpAddress, m_listIpAddressNb, m_listIpAddressCount,
                   m_poolScan, oldPending, active, pollScanMax, watchdogs, nbStart, call>>

\* resetPoolScan(): the pool built by start()
PoolOfReset(cfgMax) == EmptyPool(cfgMax)

\* start(), line 515: m_poolScan.reset(new ThreadPool(...)) stores the new
\* pool, then destroys the one it replaces
StartResetPool(c) ==
    /\ callers[c].pc = "start_pool"
    /\ m_poolScan' = PoolOfReset(pollScanMax)
    /\ oldPending' = oldPending \o m_poolScan.pending
    /\ active' = {[t EXCEPT !.old = TRUE] : t \in active}
    /\ callers' = SetCaller(c, "start_join")
    /\ ret' = NoReturn
    /\ UNCHANGED <<m_statusDiscovery, m_params, m_listIpAddress, m_listIpAddressNb,
                   m_listIpAddressCount, pollScanMax, watchdogs, nbStart, call>>

\* start(), line 515, end of the replaced pool's destructor: its workers
\* have been joined, what is left in its queue is dropped
StartJoinPool(c) ==
    /\ callers[c].pc = "start_join"
    /\ \A t \in active : ~t.old
    /\ oldPending' = <<>>
    /\ callers' = SetCaller(c, "start_config")
    /\ ret' = NoReturn
    /\ UNCHANGED <<m_statusDiscovery, m_params, m_listIpAddress, m_listIpAddressNb,
                   m_listIpAddressCount, m_poolScan, active, pollScanMax,
                   watchdogs, nbStart, call>>

\* start(), lines 520-525: readConfig(in), then the scan counters
StartReadConfig(c) ==
    /\ callers[c].pc = "start_config"
    /\ \E local \in LocalRangeIp :
         LET res == ReadConfig(callers[c].in, local)
         IN  /\ m_listIpAddress' = res.list
             /\ ret' = IF res.ok THEN NoReturn ELSE BadInput
             /\ IF res.ok
                THEN /\ m_listIpAddressNb' = Len(res.list)
                     /\ m_listIpAddressCount' = Len(res.list)
                     /\ callers' = SetCaller(c, "start_dispatch")
                ELSE /\ callers' = SetCaller(c, "idle")
                     /\ UNCHANGED <<m_listIpAddressNb, m_listIpAddressCount>>
    /\ UNCHANGED <<m_statusDiscovery, m_params, m_poolScan, oldPending, active,
                   pollScanMax, watchdogs, nbStart, call>>

TaskIds == {t.id : t \in active}
           \cup {m_poolScan.pending[i].id : i \in 1..Len(m_poolScan.pending)}
           \cup {oldPending[i].id : i \in 1..Len(oldPending)}

FreeId == CHOOSE i \in 1..(Cardinality(TaskIds) + 1) : i \notin TaskIds

\* fty::ThreadPool::pushWorker: a pool that was stopped takes no more tasks
PushWorker(pool, task) ==
    IF pool.stopped THEN pool
    ELSE [pool EXCEPT !.pending = Append(@, task)]

\* start(), lines 528-533: one turn of the dispatch loop
StartDispatch(c) ==
    /\ callers[c].pc = "start_dispatch"
    /\ m_listIpAddress # <<>>
    /\ m_poolScan' = PushWorker(m_poolScan, [id |-> FreeId, ip |-> Head(m_listIpAddress),
                                   docs |-> callers[c].in.documents])
    /\ m_listIpAddress' = Tail(m_listIpAddress)
    /\ ret' = NoReturn
    /\ UNCHANGED <<m_statusDiscovery, m_params, m_listIpAddressNb,
                   m_listIpAddressCount, oldPending, active, pollScanMax,
                   callers, watchdogs, nbStart, call>>

\* start(), lines 535-542: startThreadScanCheck and the successful return
StartWatchdog(c) ==
    /\ callers[c].pc = "start_dispatch"
    /\ m_listIpAddress = <<>>
    /\ watchdogs' = watchdogs \cup {[run |-> callers[c].run, pc |-> "poll"]}
    /\ callers' = SetCaller(c, "idle")
    /\ ret' = StartOk
    /\ UNCHANGED <<m_statusDiscovery, m_params, m_listIpAddress, m_listIpAddressNb,
                   m_listIpAddressCount, m_poolScan, oldPending, active,
                   pollScanMax, nbStart, call>>

\* ---------------------------------------------------------------- stop()
\* a stop() that also cancels a scan that has ended
StopCheckPasses_Mut(state) == state \in {IN_PROGRESS, TERMINATED}

\* stop(), line 549: the state check under m_mutex
StopCheckPasses(state) == state = IN_PROGRESS

\* stop(), lines 548-551 and 554-556: check and state change under m_mutex
StopCheck(c) ==
    /\ callers[c].pc = "idle"
    /\ IF StopCheckPasses(m_statusDiscovery.state)
       THEN /\ m_statusDiscovery' = [m_statusDiscovery EXCEPT !.state = CANCELLED_BY_USER]
            /\ callers' = SetCaller(c, "stop_pool")
            /\ ret' = NoReturn
       ELSE /\ ret' = NoScan
            /\ UNCHANGED <<m_statusDiscovery, callers>>
    /\ UNCHANGED <<m_params, m_listIpAddress, m_listIpAddressNb, m_listIpAddressCount,
                   m_poolScan, oldPending, active, pollScanMax, watchdogs, nbStart, call>>

\* stopPoolScan(): ThreadPool::stop(Immedialy) drops the queued tasks
StopPoolScan(c) ==
    /\ callers[c].pc = "stop_pool"
    /\ m_poolScan' = [m_poolScan EXCEPT !.pending = <<>>, !.stopped = TRUE]
    /\ callers' = SetCaller(c, "idle")
    /\ ret' = StopOk
    /\ UNCHANGED <<m_statusDiscovery, m_params, m_listIpAddress, m_listIpAddressNb,
                   m_listIpAddressCount, oldPending, active, pollScanMax,
                   watchdogs, nbStart, call>>

\* ------------------------------------------------------- pool and tasks
CountPendingTasks == Len(m_poolScan.pending)
CountActiveTasks  == Cardinality({t \in active : ~t.old})

NoName == <<>>

\* scan(this, ip) as a worker enters it: the position in the pipeline (pc),
\* the locals listProtocols, the loop positions over the protocols (pi), the
\* documents (ci), outAsset (ai) and the sensors (si), assetNameCreated, and
\* for the claims the filter passed to the probe (inProt), the calls of
\* getAssets (tried) and of asset::create::run (sent) it has made, the
\* documents of the request that dispatched it (docs) and the way it left
\* the pipeline (path)
NewTask(task, old) ==
    [id |-> task.id, ip |-> task.ip, st |-> "scan", old |-> old,
     pc |-> "probe", inProt |-> <<>>, listProtocols |-> <<>>, pi |-> 0, ci |-> 0,
     documents |-> <<>>, outAsset |-> <<>>, ai |-> 0, si |-> 0,
     assetNameCreated |-> NoName, tried |-> <<>>, sent |-> <<>>,
     docs |-> task.docs, path |-> "none"]

\* a worker of m_poolScan takes the next queued task and calls scan()
WorkerTake ==
    /\ m_poolScan.pending # <<>>
    /\ ~m_poolScan.stopped
    /\ CountActiveTasks < m_poolScan.threads
    /\ LET task == Head(m_poolScan.pending)
       IN  active' = active \cup {NewTask(task, FALSE)}
    /\ m_poolScan' = [m_poolScan EXCEPT !.pending = Tail(@)]
    /\ ret' = NoReturn
    /\ UNCHANGED <<m_statusDiscovery, m_params, m_listIpAddress, m_listIpAddressNb,
                   m_listIpAddressCount, oldPending, pollScanMax, callers,
                   watchdogs, nbStart, call>>

\* a worker of a pool that is being destroyed takes a task left in its queue
OldWorkerTake ==
    /\ oldPending # <<>>
    /\ LET task == Head(oldPending)
       IN  active' = active \cup {NewTask(task, TRUE)}
    /\ oldPending' = Tail(oldPending)
    /\ ret' = NoReturn
    /\ UNCHANGED <<m_statusDiscovery, m_params, m_listIpAddress, m_listIpAddressNb,
                   m_listIpAddressCount, m_poolScan, pollScanMax, callers,
                   watchdogs, nbStart, call>>

\* scan(), lines 361-368 and 394-398: a publish succeeded
TaskPublish(t, subType) ==
    /\ t \in active
    /\ t.st = "scan"
    /\ m_statusDiscovery.discovered < MaxDiscovered
    /\ m_statusDiscovery' = UpdateStatusDiscoveryCounters(m_statusDiscovery, subType)
    /\ ret' = NoReturn
    /\ UNCHANGED <<m_params, m_listIpAddress, m_listIpAddressNb, m_listIpAddressCount,
                   m_poolScan, oldPending, active, pollScanMax, callers,
                   watchdogs, nbStart, call>>

\* scan(), lines 295 and 419: updateStatusDiscoveryProgress()
TaskFinish(t) ==
    /\ t \in active
    /\ t.st = "scan"
    /\ m_listIpAddressCount' = m_listIpAddressCount - 1
    /\ m_statusDiscovery' = [m_statusDiscovery EXCEPT
           !.progress = ProgressOf(m_listIpAddressNb, m_listIpAddressCount')]
    /\ active' = (active \ {t}) \cup {[t EXCEPT !.st = "done"]}
    /\ ret' = NoReturn
    /\ UNCHANGED <<m_params, m_listIpAddress, m_listIpAddressNb, m_poolScan,
                   oldPending, pollScanMax, callers, watchdogs, nbStart, call>>

\* scan() returns, the worker is free again
TaskReturn(t) ==
    /\ t \in active
    /\ t.st = "done"
    /\ active' = active \ {t}
    /\ ret' = NoReturn
    /\ UNCHANGED <<m_statusDiscovery, m_params, m_listIpAddress, m_listIpAddressNb,
                   m_listIpAddressCount, m_poolScan, oldPending, pollScanMax,
                   callers, watchdogs, nbStart, call>>

\* ----------------------------------------------------- the probe of scan()
\* the address "__fake__" of Protocols::run
FakeAddress == 0

\* Protocols::run, lines 84-92: the protocols tried, in order of preference
Tries ==
    << [protocol |-> "nut_powercom", port |-> 443],
       [protocol |-> "nut_xml_pdc",  port |-> 80],
       [protocol |-> "nut_snmp",     port |-> 161] >>

AvailableOf_Mut(protocolStr, reachable) ==
    IF protocolStr = "nut_snmp" THEN "Maybe"
    ELSE IF reachable THEN "Yes"
    ELSE "No"

\* Protocols::run, lines 100-132: the availability stored with an entry
AvailableOf(protocolStr, reachable) ==
    IF ~reachable THEN "No"
    ELSE IF protocolStr = "nut_snmp" THEN "Maybe"
    ELSE "Yes"

\* what a host answers: available(address), and for each entry of Tries
\* whether tryPowercom / tryXmlPdc / trySnmp succeeds
Hosts ==
    [available : BOOLEAN, reach : {<<FALSE, FALSE, FALSE>>, <<FALSE, FALSE, TRUE>>,
                                   <<TRUE, FALSE, TRUE>>, <<FALSE, TRUE, TRUE>>}]

\* Protocols::run, lines 67-74: the two entries appended for "__fake__"; the
\* code does not set their availability, it is left at the first value here
FakeOut ==
    << [protocol |-> "nut_snmp", port |-> 1234, reachable |-> TRUE,
        available |-> "No"],
       [protocol |-> "nut_xml_pdc", port |-> 4321, reachable |-> FALSE,
        available |-> "No"] >>

\* Protocols::run(in, out): thrown when the host is not available, else one
\* entry per element of Tries.  in.protocols is not read.
Run(in, host) ==
    IF in.address = FakeAddress
    THEN [thrown |-> FALSE, out |-> FakeOut]
    ELSE IF ~host.available
    THEN [thrown |-> TRUE, out |-> <<>>]
    ELSE [thrown |-> FALSE,
          out |-> [i \in 1..Len(Tries) |->
                     [protocol  |-> Tries[i].protocol,
                      port      |-> Tries[i].port,
                      reachable |-> host.reach[i],
                      available |-> AvailableOf(Tries[i].protocol, host.reach[i])]]]

\* Protocols::getProtocols(inProt), called at line 291: the result of run, or
\* for a host that is not available the error returned ("error") or the
\* Error thrown on ("exception")
GetProtocols(inProt, host) ==
    LET r == Run(inProt, host)
    IN  IF r.thrown
        THEN {[res |-> "error", list |-> <<>>], [res |-> "exception", list |-> <<>>]}
        ELSE {[res |-> "ok", list |-> r.out]}

\* Assets::getAssets(inAsset, outAsset): the device refuses the protocol or
\* the credential, or answers with no asset, or with a ups carrying two
\* sensors and a device of a subtype the counters do not know carrying one
Enumerations ==
    { [ok |-> FALSE, list |-> <<>>],
      [ok |-> TRUE,  list |-> <<>>],
      [ok |-> TRUE,  list |-> << [subtype |-> "ups",  sensors |-> <<"sensor", "sensor">>],
                                 [subtype |-> "rack", sensors |-> <<"sensor">>] >>] }

\* the name asset::create::run returns for the asset it created
NameOf(t) == <<t.ip, t.ai>>

\* ------------------------------------------------- the pipeline of scan()
SetTask(t, u) == (active \ {t}) \cup {u}

\* scan(), lines 291-297: the probe.  On an error the task goes to its
\* progress update (line 295), as it does from the catch block (line 415).
TaskGetProtocols(t, host, o) ==
    /\ t \in active
    /\ t.st = "scan"
    /\ t.pc = "probe"
    /\ LET inProt == [address |-> t.ip, protocols |-> m_params.protocols]
       IN  /\ o \in GetProtocols(inProt, host)
           /\ active' = SetTask(t,
                 IF o.res = "ok"
                 THEN [t EXCEPT !.pc = "protocols", !.inProt = inProt.protocols,
                                !.listProtocols = o.list, !.pi = 1, !.ci = 1]
                 ELSE [t EXCEPT !.pc = "exit", !.inProt = inProt.protocols,
                                !.path = IF o.res = "error" THEN "probe_failed"
                                         ELSE "exception"])
    /\ ret' = NoReturn
    /\ UNCHANGED <<m_statusDiscovery, m_params, m_listIpAddress, m_listIpAddressNb,
                   m_listIpAddressCount, m_poolScan, oldPending, pollScanMax,
                   callers, watchdogs, nbStart, call>>

RECURSIVE NextTry(_, _, _, _, _)
\* scan(), lines 307-316 and 407-413: the loops over the protocols and the
\* documents, from protocol pi and document ci on, up to the next call of
\* getAssets.  docs is what the running loop over the documents sees, live
\* what m_params holds when the loop of a further protocol begins.
NextTry(list, pi, ci, docs, live) ==
    IF pi > Len(list) THEN [pi |-> pi, ci |-> ci, documents |-> docs]
    ELSE IF ~list[pi].reachable THEN NextTry(list, pi + 1, 1, live, live)
    ELSE IF ci > Len(docs) THEN NextTry(list, pi + 1, 1, live, live)
    ELSE [pi |-> pi, ci |-> ci, documents |-> docs]

\* The documents the loop of line 316 sees.  It iterates
\* m_params.discovery.documents through a reference while start() (line 506)
\* may assign m_params without a lock: once the loop runs, it sees either
\* the documents it began with or the ones assigned since.
Documents(t) ==
    IF t.ci <= 1 THEN {m_params.documents}
    ELSE {t.documents, m_params.documents}

\* scan(), lines 342 and 400-403, with the break that forgets found: the
\* search goes on with the next document
NextAsset_Mut(t) ==
    IF t.ai > Len(t.outAsset)
    THEN [t EXCEPT !.pc = "protocols", !.ci = @ + 1]
    ELSE [t EXCEPT !.pc = "assets"]

\* scan(), lines 342 and 400-413: the next asset of outAsset, or after the
\* last one found = true and both loops are left
NextAsset(t) ==
    IF t.ai > Len(t.outAsset)
    THEN [t EXCEPT !.pc = "exit", !.path = "end"]
    ELSE [t EXCEPT !.pc = "assets"]

\* scan(), lines 371 and 399: the next sensor of the asset, or the next asset
NextSensor(t) ==
    IF t.si > Len(t.outAsset[t.ai].sensors)
    THEN NextAsset([t EXCEPT !.ai = @ + 1])
    ELSE [t EXCEPT !.pc = "sensors"]

\* scan(), lines 307-330 and 402-406: the loops select the next reachable
\* protocol and document and getAssets is called with them
TaskTry(t, seen, e) ==
    /\ t \in active
    /\ t.st = "scan"
    /\ t.pc = "protocols"
    /\ seen \in Documents(t)
    /\ LET pos == NextTry(t.listProtocols, t.pi, t.ci, seen, m_params.documents)
           at  == [t EXCEPT !.pi = pos.pi, !.ci = pos.ci, !.documents = pos.documents]
       IN  IF pos.pi > Len(t.listProtocols)
           THEN active' = SetTask(t, [at EXCEPT !.pc = "exit", !.path = "end"])
           ELSE LET elt == t.listProtocols[pos.pi]
                    try == [protocol |-> elt.protocol, port |-> elt.port,
                            reachable |-> elt.reachable,
                            doc |-> pos.documents[pos.ci],
                            ok |-> e.ok, n |-> Len(e.list)]
                    tr  == [at EXCEPT !.tried = Append(@, try)]
                IN  active' = SetTask(t,
                      IF e.ok
                      THEN NextAsset([tr EXCEPT !.outAsset = e.list, !.ai = 1,
                                                !.assetNameCreated = NoName])
                      ELSE [tr EXCEPT !.ci = @ + 1])
    /\ ret' = NoReturn
    /\ UNCHANGED <<m_statusDiscovery, m_params, m_listIpAddress, m_listIpAddressNb,
                   m_listIpAddressCount, m_poolScan, oldPending, pollScanMax,
                   callers, watchdogs, nbStart, call>>

\* a failed publish that ends the loop over the assets
AssetFailed_Mut(t) == [t EXCEPT !.pc = "exit", !.path = "end"]

\* a failed publish without the continue: the sensors are published too
AssetFailed_Mut2(t) == NextSensor([t EXCEPT !.si = 1])

\* scan(), lines 361-363: the asset was not created, continue
AssetFailed(t) == NextAsset([t EXCEPT !.ai = @ + 1])

\* scan(), lines 343-371: the creation request of asset ai is sent; created
\* says whether asset::create::run succeeded
TaskCreateAsset(t, created) ==
    /\ t \in active
    /\ t.st = "scan"
    /\ t.pc = "assets"
    /\ LET asset == t.outAsset[t.ai]
           req   == [kind |-> "asset", ai |-> t.ai, sub_type |-> asset.subtype,
                     parent |-> NoName, ok |-> created,
                     name |-> IF created THEN NameOf(t) ELSE NoName]
           tr    == [t EXCEPT !.sent = Append(@, req)]
       IN  IF created
           THEN /\ active' = SetTask(t,
                      NextSensor([tr EXCEPT !.assetNameCreated = req.name, !.si = 1]))
                /\ m_statusDiscovery' =
                      UpdateStatusDiscoveryCounters(m_statusDiscovery, asset.subtype)
           ELSE /\ active' = SetTask(t, AssetFailed(tr))
                /\ UNCHANGED m_statusDiscovery
    /\ ret' = NoReturn
    /\ UNCHANGED <<m_params, m_listIpAddress, m_listIpAddressNb, m_listIpAddressCount,
                   m_poolScan, oldPending, pollScanMax, callers, watchdogs, nbStart, call>>

\* scan(), lines 371-399: the creation request of sensor si of asset ai
TaskCreateSensor(t, created) ==
    /\ t \in active
    /\ t.st = "scan"
    /\ t.pc = "sensors"
    /\ LET subtype == t.outAsset[t.ai].sensors[t.si]
           req     == [kind |-> "sensor", ai |-> t.ai, sub_type |-> subtype,
                       parent |-> t.assetNameCreated, ok |-> created,
                       name |-> NoName]
           tr      == [t EXCEPT !.sent = Append(@, req), !.si = @ + 1]
       IN  /\ active' = SetTask(t, NextSensor(tr))
           /\ m_statusDiscovery' =
                 IF created
                 THEN UpdateStatusDiscoveryCounters(m_statusDiscovery, subtype)
                 ELSE m_statusDiscovery
    /\ ret' = NoReturn
    /\ UNCHANGED <<m_params, m_listIpAddress, m_listIpAddressNb, m_listIpAddressCount,
                   m_poolScan, oldPending, pollScanMax, callers, watchdogs, nbStart, call>>

\* an exception that leaves scan() without the progress update
TaskThrow_Mut(t) ==
    /\ t \in active
    /\ t.st = "scan"
    /\ t.pc \in {"probe", "protocols", "assets", "sensors"}
    /\ active' = SetTask(t, [t EXCEPT !.st = "done", !.pc = "exit", !.path = "exception"])
    /\ ret' = NoReturn
    /\ UNCHANGED <<m_statusDiscovery, m_params, m_listIpAddress, m_listIpAddressNb,
                   m_listIpAddressCount, m_poolScan, oldPending, pollScanMax,
                   callers, watchdogs, nbStart, call>>

\* scan(), lines 415-417: an exception thrown in the pipeline is caught
TaskThrow(t) ==
    /\ t \in active
    /\ t.st = "scan"
    /\ t.pc \in {"probe", "protocols", "assets", "sensors"}
    /\ active' = SetTask(t, [t EXCEPT !.pc = "exit", !.path = "exception"])
    /\ ret' = NoReturn
    /\ UNCHANGED <<m_statusDiscovery, m_params, m_listIpAddress, m_listIpAddressNb,
                   m_listIpAddressCount, m_poolScan, oldPending, pollScanMax,
                   callers, watchdogs, nbStart, call>>

\* scan(), lines 295 and 419: the pipeline is left, updateStatusDiscoveryProgress()
TaskExit(t) ==
    /\ t.pc = "exit"
    /\ TaskFinish(t)

\* ------------------------------------------------------------- watchdog
\* scanCheck(), line 440: the test that ends the scan
ScanCheckEnds(countPendingTasks, countActiveTasks) == countActiveTasks = 0

\* scanCheck(), lines 436-440: the pool counters are read and tested; a poll
\* that does not end the scan sleeps and polls again
WatchdogPoll(w) ==
    /\ w \in watchdogs
    /\ w.pc = "poll"
    /\ ScanCheckEnds(CountPendingTasks, CountActiveTasks)
    /\ watchdogs' = (watchdogs \ {w}) \cup {[w EXCEPT !.pc = "end"]}
    /\ ret' = NoReturn
    /\ UNCHANGED <<m_statusDiscovery, m_params, m_listIpAddress, m_listIpAddressNb,
                   m_listIpAddressCount, m_poolScan, oldPending, active,
                   pollScanMax, callers, nbStart, call>>

\* a scanCheck() that sets TERMINATED and still returns false: the loop goes on
WatchdogTerminate_Mut(w) ==
    /\ w \in watchdogs
    /\ w.pc = "end"
    /\ m_statusDiscovery' = [m_statusDiscovery EXCEPT !.state = TERMINATED]
    /\ watchdogs' = (watchdogs \ {w}) \cup {[w EXCEPT !.pc = "poll"]}
    /\ ret' = NoReturn
    /\ UNCHANGED <<m_params, m_listIpAddress, m_listIpAddressNb, m_listIpAddressCount,
                   m_poolScan, oldPending, active, pollScanMax, callers, nbStart, call>>

\* scanCheck(), lines 441-448: state = TERMINATED under m_mutex, the loop ends
WatchdogTerminate(w) ==
    /\ w \in watchdogs
    /\ w.pc = "end"
    /\ m_statusDiscovery' = [m_statusDiscovery EXCEPT !.state = TERMINATED]
    /\ watchdogs' = watchdogs \ {w}
    /\ ret' = NoReturn
    /\ UNCHANGED <<m_params, m_listIpAddress, m_listIpAddressNb, m_listIpAddressCount,
                   m_poolScan, oldPending, active, pollScanMax, callers, nbStart, call>>

\* ------------------------------------------------------------------ Next
Next ==
    \/ \E c \in Callers, in \in ScanRequests : StartCheck(c, in)
    \/ \E c \in Callers : StartReset(c)
    \/ \E c \in Callers : StartResetPool(c)
    \/ \E c \in Callers : StartJoinPool(c)
    \/ \E c \in Callers : StartReadConfig(c)
    \/ \E c \in Callers : StartDispatch(c)
    \/ \E c \in Callers : StartWatchdog(c)
    \/ \E c \in Callers : StopCheck(c)
    \/ \E c \in Callers : StopPoolScan(c)
    \/ WorkerTake
    \/ OldWorkerTake
    \/ \E t \in active : TaskFinish(t)
    \/ \E t \in active : TaskReturn(t)
    \/ \E w \in watchdogs : WatchdogPoll(w)
    \/ \E w \in watchdogs : WatchdogTerminate(w)

Spec == Init /\ [][Next]_vars

\* One caller, every kind of request, and the publishes of the running tasks
NextSeq ==
    \/ \E in \in Requests : StartCheck("c1", in)
    \/ StartReset("c1")
    \/ StartResetPool("c1")
    \/ StartJoinPool("c1")
    \/ StartReadConfig("c1")
    \/ StartDispatch("c1")
    \/ StartWatchdog("c1")
    \/ StopCheck("c1")
    \/ StopPoolScan("c1")
    \/ WorkerTake
    \/ OldWorkerTake
    \/ \E t \in active, subType \in SubTypes : TaskPublish(t, subType)
    \/ \E t \in active : TaskFinish(t)
    \/ \E t \in active : TaskReturn(t)
    \/ \E w \in watchdogs : WatchdogPoll(w)
    \/ \E w \in watchdogs : WatchdogTerminate(w)

SpecSeq == Init /\ [][NextSeq]_vars

\* The progress function on every address count up to MaxTotal: the state
\* right after start() has dispatched n addresses to a pool of one worker and
\* returned, then the tasks run to completion.
InitProgress ==
    \E n \in 1..MaxTotal :
        /\ pollScanMax = 1
        /\ m_poolScan = [PoolOfReset(1) EXCEPT
               !.pending = [i \in 1..n |-> [id |-> i, ip |-> i, docs |-> <<>>]]]
        /\ m_statusDiscovery = StatusDiscoveryReset
        /\ m_params = [type |-> "IP", ips |-> [i \in 1..n |-> i], scans |-> <<>>, protocols |-> <<>>, documents |-> <<>>]
        /\ m_listIpAddress = <<>>
        /\ m_listIpAddressNb = n
        /\ m_listIpAddressCount = n
        /\ oldPending = <<>>
        /\ active = {}
        /\ callers = [c \in Callers |-> [Idle EXCEPT !.run = IF c = "c1" THEN 1 ELSE 0]]
        /\ watchdogs = {[run |-> 1, pc |-> "poll"]}
        /\ ret = StartOk
        /\ nbStart = 1
        /\ call = NoCall

NextProgress ==
    \/ WorkerTake
    \/ \E t \in active : TaskFinish(t)
    \/ \E t \in active : TaskReturn(t)

SpecProgress == InitProgress /\ [][NextProgress]_vars

\* ------------------------------------------- Protocols::run, step by step
\* One call of Protocols::run(in, out) with an empty out.  call holds the
\* position of the call (pc), its input, the entries appended to out, the
\* index i of the element of Tries at hand, the number w of bytes trySnmp
\* has written, the result r of its last write(), whether available() was
\* called (checked) and the elements of Tries that were probed (tried).

\* trySnmp, line 265: the number of writes
N == 20

\* the inputs of Protocols::run: the sentinel and two hosts, without and with
\* a list of protocols
ProbeIns == [address : {FakeAddress, 1, 2}, protocols : {<<>>, <<"nut_snmp">>}]

\* Protocols::run, lines 97-101: the entry appended before the try
DefaultEntry(i) ==
    [protocol |-> Tries[i].protocol, port |-> Tries[i].port,
     reachable |-> FALSE, available |-> AvailableOf(Tries[i].protocol, FALSE)]

\* Protocols::run, lines 106-132: the entry once the try has returned
EntryOf(i, reachable) ==
    [DefaultEntry(i) EXCEPT !.reachable = reachable,
                            !.available = AvailableOf(Tries[i].protocol, reachable)]

\* Protocols::run, lines 94 and 143-145: the loop goes on with the next
\* element of Tries, or the call returns
AfterTry(i) == IF i < Len(Tries) THEN "try" ELSE "return"

\* timeoutConnect, lines 193-217: fails only when poll() fails; a refused
\* or timed out connection sets errno and returns success
TimeoutConnect(connectRet, pollRet) ==
    IF connectRet = "EINPROGRESS" /\ pollRet \notin {0, 1}
    THEN "unexpected"
    ELSE "ok"

\* trySnmp, lines 248-261: getaddrinfo(), socket() and timeoutConnect()
TrySnmpOpen(gai, sock, connectRet, pollRet) ==
    IF gai # 0 THEN "unexpected"
    ELSE IF sock = -1 THEN "unexpected"
    ELSE TimeoutConnect(connectRet, pollRet)

RunBegin_Mut(in) ==
    /\ call.fn = "none" \/ (call.fn = "run" /\ call.pc \in {"return", "thrown"})
    /\ call' = [fn |-> "run", pc |-> "available", in |-> in, out |-> <<>>,
                i |-> 0, w |-> 0, r |-> 0, checked |-> FALSE, tried |-> {}]
    /\ UNCHANGED <<m_statusDiscovery, m_params, m_listIpAddress, m_listIpAddressNb,
                   m_listIpAddressCount, m_poolScan, oldPending, active, pollScanMax,
                   callers, watchdogs, ret, nbStart>>

\* Protocols::run, lines 63-76: the call begins; the sentinel returns at once
RunBegin(in) ==
    /\ call.fn = "none" \/ (call.fn = "run" /\ call.pc \in {"return", "thrown"})
    /\ call' = [fn |-> "run",
                pc |-> IF in.address = FakeAddress THEN "return" ELSE "available",
                in |-> in,
                out |-> IF in.address = FakeAddress THEN FakeOut ELSE <<>>,
                i |-> 0, w |-> 0, r |-> 0, checked |-> FALSE, tried |-> {}]
    /\ UNCHANGED <<m_statusDiscovery, m_params, m_listIpAddress, m_listIpAddressNb,
                   m_listIpAddressCount, m_poolScan, oldPending, active, pollScanMax,
                   callers, watchdogs, ret, nbStart>>

\* Protocols::run, lines 78-80: available(in.address), Error thrown if not
RunAvailable(alive) ==
    /\ call.fn = "run"
    /\ call.pc = "available"
    /\ call' = [call EXCEPT !.checked = TRUE,
                            !.pc = IF alive THEN "try" ELSE "thrown",
                            !.i = IF alive THEN 1 ELSE @]
    /\ UNCHANGED <<m_statusDiscovery, m_params, m_listIpAddress, m_listIpAddressNb,
                   m_listIpAddressCount, m_poolScan, oldPending, active, pollScanMax,
                   callers, watchdogs, ret, nbStart>>

RunTry_Mut(res) ==
    /\ call.fn = "run"
    /\ call.pc = "try"
    /\ Tries[call.i].protocol # "nut_snmp"
    /\ call' = [call EXCEPT !.out = Append(@, EntryOf(call.i, res)),
                            !.tried = @ \cup {call.i},
                            !.pc = IF res THEN AfterTry(call.i) ELSE "return",
                            !.i = IF res /\ call.i < Len(Tries) THEN @ + 1 ELSE @]
    /\ UNCHANGED <<m_statusDiscovery, m_params, m_listIpAddress, m_listIpAddressNb,
                   m_listIpAddressCount, m_poolScan, oldPending, active, pollScanMax,
                   callers, watchdogs, ret, nbStart>>

\* Protocols::run, lines 94-126: one turn of the loop for Powercom or Xml;
\* res tells whether tryPowercom / tryXmlPdc succeeds
RunTry(res) ==
    /\ call.fn = "run"
    /\ call.pc = "try"
    /\ Tries[call.i].protocol # "nut_snmp"
    /\ call' = [call EXCEPT !.out = Append(@, EntryOf(call.i, res)),
                            !.tried = @ \cup {call.i},
                            !.pc = AfterTry(call.i),
                            !.i = IF call.i < Len(Tries) THEN @ + 1 ELSE @]
    /\ UNCHANGED <<m_statusDiscovery, m_params, m_listIpAddress, m_listIpAddressNb,
                   m_listIpAddressCount, m_poolScan, oldPending, active, pollScanMax,
                   callers, watchdogs, ret, nbStart>>

\* Protocols::run, lines 94-101 and 127-128, trySnmp, lines 236-261: the
\* turn of the loop for Snmp up to the first write
RunTrySnmp(gai, sock, connectRet, pollRet) ==
    /\ call.fn = "run"
    /\ call.pc = "try"
    /\ Tries[call.i].protocol = "nut_snmp"
    /\ LET opened == TrySnmpOpen(gai, sock, connectRet, pollRet) = "ok"
       IN  call' = [call EXCEPT !.out = Append(@, DefaultEntry(call.i)),
                                !.tried = @ \cup {call.i},
                                !.w = 0,
                                !.r = 0,
                                !.pc = IF opened THEN "write" ELSE AfterTry(call.i),
                                !.i = IF ~opened /\ call.i < Len(Tries) THEN @ + 1 ELSE @]
    /\ UNCHANGED <<m_statusDiscovery, m_params, m_listIpAddress, m_listIpAddressNb,
                   m_listIpAddressCount, m_poolScan, oldPending, active, pollScanMax,
                   callers, watchdogs, ret, nbStart>>

TrySnmpWrite_Mut(r) ==
    /\ call.fn = "run"
    /\ call.pc = "write"
    /\ LET last == call.w + 1 = N
       IN  call' = [call EXCEPT !.r = r,
                                !.w = @ + 1,
                                !.out[Len(call.out)] = IF last THEN EntryOf(call.i, TRUE) ELSE @,
                                !.pc = IF last THEN AfterTry(call.i) ELSE "write",
                                !.i = IF last /\ call.i < Len(Tries) THEN @ + 1 ELSE @]
    /\ UNCHANGED <<m_statusDiscovery, m_params, m_listIpAddress, m_listIpAddressNb,
                   m_listIpAddressCount, m_poolScan, oldPending, active, pollScanMax,
                   callers, watchdogs, ret, nbStart>>

\* trySnmp, lines 265-277, Protocols::run, lines 128-136: one write(); the
\* first that returns -1 ends the try without success, the N-th that does
\* not ends it with success
TrySnmpWrite(r) ==
    /\ call.fn = "run"
    /\ call.pc = "write"
    /\ LET failed == r = -1
           last   == ~failed /\ call.w + 1 = N
       IN  call' = [call EXCEPT !.r = r,
                                !.w = IF failed THEN @ ELSE @ + 1,
                                !.out[Len(call.out)] = IF last THEN EntryOf(call.i, TRUE) ELSE @,
                                !.pc = IF failed \/ last THEN AfterTry(call.i) ELSE "write",
                                !.i = IF (failed \/ last) /\ call.i < Len(Tries)
                                      THEN @ + 1 ELSE @]
    /\ UNCHANGED <<m_statusDiscovery, m_params, m_listIpAddress, m_listIpAddressNb,
                   m_listIpAddressCount, m_poolScan, oldPending, active, pollScanMax,
                   callers, watchdogs, ret, nbStart>>

\* calls of Protocols::run, one after the other, with every answer of the
\* network
NextProbe ==
    \/ \E in \in ProbeIns : RunBegin(in)
    \/ \E alive \in BOOLEAN : RunAvailable(alive)
    \/ \E res \in BOOLEAN : RunTry(res)
    \/ \E gai \in {0, -2}, sock \in {3, -1},
          connectRet \in {"ok", "EINPROGRESS", "ECONNREFUSED"}, pollRet \in {1, 0, -1} :
          RunTrySnmp(gai, sock, connectRet, pollRet)
    \/ \E r \in {1, -1} : TrySnmpWrite(r)

SpecProbe == Init /\ [][NextProbe]_vars

\* ------------------------------------------------------------ updateExt()
\* One call of updateExt(extIn, extOut) with an empty extOut.  A map of extIn
\* is the sequence of its (key, value) pairs in the order the loop of line 71
\* meets them; call holds extIn, the index it of the map at hand and the
\* calls of extOut.append made so far.

ExtKeys == {"", "foo", "baz", "read_only"}

ExtValues == {"bar", "true"}

ExtPairs == [key : ExtKeys, value : ExtValues]

\* the maps of at most two pairs with distinct keys
ExtMaps ==
    {<<>>} \cup {<<p>> : p \in ExtPairs}
           \cup {m \in {<<p, q>> : p \in ExtPairs, q \in ExtPairs} : m[1].key # m[2].key}

\* the lists of at most MaxExt maps
ExtLists == UNION {[1..n -> ExtMaps] : n \in 0..MaxExt}

\* updateExt, lines 68-69: newMapExtObj and keyVal as they are constructed,
\* with an empty value and readOnly false
NewMapExtObj == [keyVal |-> "", value |-> "", readOnly |-> FALSE]

FoldMap_Mut(m, j, acc) ==
    IF m = <<>> THEN NewMapExtObj
    ELSE [keyVal   |-> m[Len(m)].key,
          value    |-> m[Len(m)].value,
          readOnly |-> m[1].key = "read_only" /\ m[1].value = "true"]

\* updateExt, lines 71-79: the loop over the pairs of one map, from pair j on
RECURSIVE FoldMap(_, _, _)
FoldMap(m, j, acc) ==
    IF j > Len(m) THEN acc
    ELSE IF m[j].key = "read_only"
    THEN FoldMap(m, j + 1, [acc EXCEPT !.readOnly = (m[j].value = "true")])
    ELSE FoldMap(m, j + 1, [acc EXCEPT !.keyVal = m[j].key, !.value = m[j].value])

\* updateExt, lines 67-83: one turn of the outer loop
UpdateExtMap ==
    /\ call.fn = "updateExt"
    /\ call.it <= Len(call.extIn)
    /\ LET obj == FoldMap(call.extIn[call.it], 1, NewMapExtObj)
       IN  call' = [call EXCEPT
                      !.it = @ + 1,
                      !.extOut = IF obj.keyVal # ""
                                 THEN Append(@, [key |-> obj.keyVal, value |-> obj.value,
                                                 readOnly |-> obj.readOnly])
                                 ELSE @]
    /\ UNCHANGED <<m_statusDiscovery, m_params, m_listIpAddress, m_listIpAddressNb,
                   m_listIpAddressCount, m_poolScan, oldPending, active, pollScanMax,
                   callers, watchdogs, ret, nbStart>>

\* updateExt, lines 67 and 85: the loop is over, the call returns success
UpdateExtReturn ==
    /\ call.fn = "updateExt"
    /\ call.it = Len(call.extIn) + 1
    /\ call.ret = "none"
    /\ call' = [call EXCEPT !.ret = "ok"]
    /\ UNCHANGED <<m_statusDiscovery, m_params, m_listIpAddress, m_listIpAddressNb,
                   m_listIpAddressCount, m_poolScan, oldPending, active, pollScanMax,
                   callers, watchdogs, ret, nbStart>>

\* updateExt is called with a list of ExtLists and an empty extOut
InitExt ==
    /\ pollScanMax = 1
    /\ m_poolScan = PoolOfInit(pollScanMax)
    /\ m_statusDiscovery = StatusDiscoveryInit
    /\ m_params = NoRequest
    /\ m_listIpAddress = <<>>
    /\ m_listIpAddressNb = 0
    /\ m_listIpAddressCount = 0
    /\ oldPending = <<>>
    /\ active = {}
    /\ callers = [c \in Callers |-> Idle]
    /\ watchdogs = {}
    /\ ret = NoReturn
    /\ nbStart = 0
    /\ \E extIn \in ExtLists :
          call = [fn |-> "updateExt", extIn |-> extIn, extOut |-> <<>>, it |-> 1,
                  ret |-> "none"]

NextExt ==
    \/ UpdateExtMap
    \/ UpdateExtReturn

SpecExt == InitExt /\ [][NextExt]_vars

TypeOK ==
    /\ m_statusDiscovery.state \in {UNKNOWN, IN_PROGRESS, TERMINATED, CANCELLED_BY_USER}
    /\ m_statusDiscovery.progress \in 0..100
    /\ nbStart \in 0..MaxStarts
    /\ call.fn \in {"none", "run", "updateExt"}

\* ================================================================ claims
StartPcs == {"start_reset", "start_pool", "start_join", "start_config", "start_dispatch"}

\* what a failed start() or stop() must leave alone
scanVars == <<m_statusDiscovery, m_params, m_listIpAddress, m_listIpAddressNb,
              m_listIpAddressCount, m_poolScan, oldPending, active>>

\* C1: start() returns "Scan in progress" exactly when the state is
\* IN_PROGRESS at the check: a step that returns the error starts in
\* IN_PROGRESS and changes neither the status, the counters, the stored
\* request nor the pool, and a step that lets start() go on starts in a
\* state other than IN_PROGRESS.
C1_AlreadyRunningIffInProgress ==
    [][ /\ (ret' = ScanInProgress) =>
              (m_statusDiscovery.state = IN_PROGRESS /\ UNCHANGED scanVars)
        /\ \A c \in Callers :
              (callers[c].pc = "idle" /\ callers'[c].pc = "start_reset") =>
                  m_statusDiscovery.state # IN_PROGRESS ]_vars

\* a start() was refused while a scan of two addresses was in progress
C1_Witness ==
    /\ ret = ScanInProgress
    /\ m_statusDiscovery.state = IN_PROGRESS
    /\ m_listIpAddressNb = 2

\* C2: of two start() calls running at the same time at most one is past the
\* state check (in the reset / pool / dispatch sequence).
C2_OneStartPastTheCheck ==
    Cardinality({c \in Callers : callers[c].pc \in StartPcs}) <= 1

\* C3: the state leaves IN_PROGRESS for TERMINATED (no stop() since the last
\* status reset) only when no dispatched task is pending or running and no
\* address remains.
C3_TerminatedOnlyWhenAllDone ==
    [][ (m_statusDiscovery.state = IN_PROGRESS /\ m_statusDiscovery'.state = TERMINATED) =>
           /\ CountPendingTasks = 0
           /\ CountActiveTasks = 0
           /\ m_listIpAddressCount = 0 ]_vars

\* C4: stop() returns "No scan in progress" only from a state other than
\* IN_PROGRESS and then changes nothing; stop() goes on only from IN_PROGRESS,
\* sets the state to CANCELLED_BY_USER in the same critical section and
\* returns success.
C4_StopOnlyWhenInProgress ==
    [][ /\ (ret' = NoScan) =>
              (m_statusDiscovery.state # IN_PROGRESS /\ UNCHANGED scanVars)
        /\ \A c \in Callers :
              /\ (callers[c].pc = "idle" /\ callers'[c].pc = "stop_pool") =>
                    /\ m_statusDiscovery.state = IN_PROGRESS
                    /\ m_statusDiscovery'.state = CANCELLED_BY_USER
              /\ (callers[c].pc = "stop_pool" /\ callers'[c].pc = "idle") =>
                    ret' = StopOk ]_vars

\* a stop() was refused after an earlier stop() had cancelled the scan
C4_Witness ==
    /\ ret = NoScan
    /\ m_statusDiscovery.state = CANCELLED_BY_USER

AllowedStateChanges ==
    { <<UNKNOWN, IN_PROGRESS>>, <<IN_PROGRESS, TERMINATED>>,
      <<IN_PROGRESS, CANCELLED_BY_USER>>, <<TERMINATED, IN_PROGRESS>>,
      <<CANCELLED_BY_USER, IN_PROGRESS>> }

\* C5: the state changes only along UNKNOWN -> IN_PROGRESS,
\* IN_PROGRESS -> TERMINATED, IN_PROGRESS -> CANCELLED and
\* TERMINATED / CANCELLED -> IN_PROGRESS.
C5_StateMachine ==
    [][ m_statusDiscovery'.state # m_statusDiscovery.state =>
           <<m_statusDiscovery.state, m_statusDiscovery'.state>> \in AllowedStateChanges ]_vars

\* C6: start() does not return success for a request with nothing to scan
\* under a mode that needs it, nor for a request with an unknown mode.
C6_InvalidRequestRejected ==
    /\ ret = StartOk => ~InvalidRequest(m_params)
    /\ \A c \in Callers :
          callers[c].pc = "start_dispatch" => ~InvalidRequest(callers[c].in)

\* round(a / b) for naturals a and b > 0, halves away from zero as std::round
RoundDiv(a, b) == (2 * a + b) \div (2 * b)

\* C7: once a task of a run with total > 0 has completed, progress is
\* 100 * (total - remaining) / total rounded to the nearest integer (at most 100).
C7_ProgressIsRounded ==
    (m_listIpAddressNb > 0 /\ m_listIpAddressCount >= 0
       /\ m_listIpAddressCount < m_listIpAddressNb)
    => m_statusDiscovery.progress =
          (LET r == RoundDiv(100 * (m_listIpAddressNb - m_listIpAddressCount),
                             m_listIpAddressNb)
           IN  IF r > 100 THEN 100 ELSE r)

\* the scan of a valid request is over: the watchdog has set TERMINATED and
\* ended, no stop() was called on the pool, nothing is queued or running
ScanOver ==
    /\ m_statusDiscovery.state = TERMINATED
    /\ ~InvalidRequest(m_params)
    /\ ~m_poolScan.stopped
    /\ \A c \in Callers : callers[c].pc = "idle"
    /\ watchdogs = {}
    /\ CountPendingTasks = 0
    /\ oldPending = <<>>
    /\ active = {}

\* C8: whatever the number of addresses, zero included, a scan that was not
\* stopped ends in TERMINATED with progress 100.
C8_EndsWithProgress100 ==
    ScanOver => m_statusDiscovery.progress = 100

\* C9: progress never decreases within a run, that is in any step other than
\* the status reset of a start().
C9_ProgressNeverDecreases ==
    [][ (\A c \in Callers : ~(callers[c].pc = "start_reset" /\ callers'[c].pc = "start_pool"))
          => m_statusDiscovery'.progress >= m_statusDiscovery.progress ]_vars

KnownSubTypes == {"ups", "epdu", "sts", "sensor"}

\* C10: in every state (every state is one the status lock can be taken in)
\* ups + epdu + sts + sensors = discovered, and a publish of a subtype other
\* than ups, epdu, sts and sensor changes none of the five counters.
C10_CountersSumToDiscovered ==
    /\ [](m_statusDiscovery.ups + m_statusDiscovery.epdu + m_statusDiscovery.sts
            + m_statusDiscovery.sensors = m_statusDiscovery.discovered)
    /\ [][ \A t \in active, subType \in SubTypes \ KnownSubTypes :
              TaskPublish(t, subType) => UNCHANGED m_statusDiscovery ]_vars

\* two tasks are running at once and an ups and a sensor have been counted
C10_Witness ==
    /\ Cardinality({t \in active : t.st = "scan"}) = 2
    /\ m_statusDiscovery.ups = 1
    /\ m_statusDiscovery.sensors = 1
    /\ m_statusDiscovery.discovered = 2

\* ------------------------------------------------------------- liveness
\* One caller that never calls stop(): start() runs to its return, the pool
\* workers run the tasks they hold and the detached scan-check thread keeps
\* polling (startThreadScanCheck, lines 487-492).
StartSteps(c) ==
    \/ StartReset(c)
    \/ StartResetPool(c)
    \/ StartJoinPool(c)
    \/ StartReadConfig(c)
    \/ StartDispatch(c)
    \/ StartWatchdog(c)

WorkerSteps ==
    \/ WorkerTake
    \/ OldWorkerTake
    \/ \E t \in active : TaskFinish(t)
    \/ \E t \in active : TaskReturn(t)

\* the loop of startThreadScanCheck: scanCheck(), sleep, again
ScanCheckSteps ==
    \/ \E w \in watchdogs : WatchdogPoll(w)
    \/ \E w \in watchdogs : WatchdogTerminate(w)

NextLive ==
    \/ \E in \in ScanRequests : StartCheck("c1", in)
    \/ StartSteps("c1")
    \/ WorkerSteps
    \/ ScanCheckSteps

SpecLive ==
    /\ Init
    /\ [][NextLive]_vars
    /\ WF_vars(StartSteps("c1"))
    /\ WF_vars(WorkerSteps)
    /\ WF_vars(ScanCheckSteps)

TaskRequests(n) ==
    IF n = 0
    THEN { [type |-> "IP", ips |-> <<1, 2>>, scans |-> <<>>,
            protocols |-> <<"nut_snmp">>, documents |-> <<"d1", "d2", "d3">>] }
    ELSE { [type |-> "IP", ips |-> <<2>>, scans |-> <<>>,
            protocols |-> <<>>, documents |-> <<"d4", "d5">>] }

\* the hosts behind the addresses: a device at address 1 that answers SNMP,
\* or Powercom and SNMP; at any other address nothing that answers a protocol
HostsOf(ip) ==
    IF ip = 1
    THEN {h \in Hosts : h.available /\ h.reach \in {<<FALSE, FALSE, TRUE>>, <<TRUE, FALSE, TRUE>>}}
    ELSE {h \in Hosts : h.reach = <<FALSE, FALSE, FALSE>>}

NextTask ==
    \/ \E in \in TaskRequests(nbStart) : StartCheck("c1", in)
    \/ StartSteps("c1")
    \/ WorkerTake
    \/ OldWorkerTake
    \/ \E t \in active : \E host \in HostsOf(t.ip) :
          \E o \in GetProtocols([address |-> t.ip, protocols |-> m_params.protocols], host) :
             TaskGetProtocols(t, host, o)
    \/ \E t \in active : \E seen \in Documents(t), e \in Enumerations : TaskTry(t, seen, e)
    \/ \E t \in active, created \in BOOLEAN : TaskCreateAsset(t, created)
    \/ \E t \in active, created \in BOOLEAN : TaskCreateSensor(t, created)
    \/ \E t \in active : TaskThrow(t)
    \/ \E t \in active : TaskExit(t)
    \/ \E t \in active : TaskReturn(t)
    \/ ScanCheckSteps

SpecTask == Init /\ [][NextTask]_vars


\* C12: the pool m_poolScan points to, built by init() or by a start(), has
\* a maximum worker count of at least SCAN_MIN_NUM_THREAD.
C12_PoolKeepsMinimum ==
    m_poolScan.threads >= SCAN_MIN_NUM_THREAD

\* the addresses of the call in its dispatch loop that no task has finished
\* with yet: not yet dispatched, queued, or in a running task
NotFinished ==
    Len(m_listIpAddress) + CountPendingTasks
      + Cardinality({t \in active : ~t.old /\ t.st = "scan"})

\* C13: while a start() whose scan has not been stopped is in its dispatch
\* loop, total is the number of expanded addresses and every one of them is
\* either still in the list, or in exactly one task of the pool, or finished
\* (remaining counts the first two kinds); each turn of the loop moves the
\* head of the list into one new task; start() returns with the list empty.
C13_OneTaskPerAddress ==
    /\ [](\A c \in Callers :
            (callers[c].pc = "start_dispatch" /\ ~m_poolScan.stopped
               /\ m_statusDiscovery.state = IN_PROGRESS)
            => /\ m_listIpAddressCount = NotFinished
               /\ m_listIpAddressCount <= m_listIpAddressNb)
    /\ [](ret = StartOk => m_listIpAddress = <<>>)

\* ----------------------------------------------------- claims on scan()
IsPrefix(a, b) == Len(a) <= Len(b) /\ \A i \in 1..Len(a) : a[i] = b[i]

RECURSIVE LexPairs(_, _)
\* the (protocol, port, document) triples of the reachable entries of list,
\* protocols in the order of list, then documents in the order of docs
LexPairs(list, docs) ==
    IF list = <<>> THEN <<>>
    ELSE (IF Head(list).reachable
          THEN [j \in 1..Len(docs) |->
                  [protocol |-> Head(list).protocol, port |-> Head(list).port,
                   doc |-> docs[j]]]
          ELSE <<>>) \o LexPairs(Tail(list), docs)

\* the calls of getAssets a task has made
TriedPairs(t) ==
    [i \in 1..Len(t.tried) |->
       [protocol |-> t.tried[i].protocol, port |-> t.tried[i].port,
        doc |-> t.tried[i].doc]]

\* the search of the task is over and its last getAssets succeeded
Won(t) ==
    /\ t.pc = "exit"
    /\ t.path = "end"
    /\ t.tried # <<>>
    /\ t.tried[Len(t.tried)].ok

\* the tasks that make their progress update in this step
Exits == {t \in active : t.st = "scan" /\ \E u \in active' : u.id = t.id /\ u.st = "done"}

\* the step stores the counters of a new run (start(), line 525)
CountersStored == \E c \in Callers : callers[c].pc = "start_config"
                                       /\ callers'[c].pc # "start_config"

\* some step of the pipeline of t
TaskStep(t) ==
    \/ \E host \in Hosts :
          \E o \in GetProtocols([address |-> t.ip, protocols |-> m_params.protocols], host) :
             TaskGetProtocols(t, host, o)
    \/ \E seen \in Documents(t), e \in Enumerations : TaskTry(t, seen, e)
    \/ \E created \in BOOLEAN : TaskCreateAsset(t, created)
    \/ \E created \in BOOLEAN : TaskCreateSensor(t, created)
    \/ TaskExit(t)

\* C14: every task a worker runs makes the decrement of the remaining
\* counter and the progress update exactly once, whatever way it leaves the
\* pipeline: the counter changes by one in exactly the steps in which a task
\* goes from running to done, a task goes to done only from the end of the
\* pipeline (probe failed, search over, assets published, exception caught),
\* a worker is freed only by a task that is done, and a task that is not
\* done can always take its next step whatever the others did.
C14_OneDecrementPerTask ==
    /\ [][ /\ ~CountersStored =>
                m_listIpAddressCount' = m_listIpAddressCount - Cardinality(Exits)
           /\ Cardinality(Exits) <= 1
           /\ \A t \in Exits :
                /\ t.pc = "exit"
                /\ t.path \in {"probe_failed", "end", "exception"}
                /\ m_statusDiscovery'.progress =
                      ProgressOf(m_listIpAddressNb, m_listIpAddressCount')
           /\ \A t \in active :
                /\ (\A u \in active' : u.id # t.id) => t.st = "done"
                /\ t.st = "done" => \A u \in active' : u.id = t.id => u.st = "done" ]_vars
    /\ [](\A t \in active : t.st = "scan" => ENABLED TaskStep(t))

\* the tasks of two addresses are done: one after its probe failed or threw,
\* the other after it published an asset
C14_Witness ==
    /\ m_listIpAddressNb = 2
    /\ m_listIpAddressCount = 0
    /\ \E t \in active : t.st = "done" /\ t.path \in {"probe_failed", "exception"}
                           /\ t.sent = <<>>
    /\ \E t \in active : t.st = "done" /\ t.path = "end"
                           /\ \E i \in 1..Len(t.sent) : t.sent[i].ok

\* C15: within a task no getAssets call follows one that succeeded: the
\* successful call is the last one, for whatever documents and protocols
\* are left.
C15_NothingTriedAfterSuccess ==
    \A t \in active :
       /\ \A i \in 1..Len(t.tried) : t.tried[i].ok => i = Len(t.tried)
       /\ t.pc \in {"assets", "sensors"} => Won([t EXCEPT !.pc = "exit", !.path = "end"])

\* a task is done whose first document failed and whose second document
\* found assets on the first of two reachable protocols: the third document
\* and the second protocol were not tried
C15_Witness ==
    \E t \in active :
       /\ t.st = "done"
       /\ Won(t)
       /\ Len(t.tried) = 2
       /\ ~t.tried[1].ok
       /\ t.tried[2].n > 0
       /\ t.tried[2].doc = "d2"
       /\ t.docs = <<"d1", "d2", "d3">>
       /\ Len(LexPairs(t.listProtocols, t.docs)) = 6

\* C16: a getAssets call that succeeds with an empty list does not end the
\* search: a task whose search ended on such a call has tried every document
\* on every reachable protocol.
C16_EmptyListGoesOn ==
    \A t \in active :
       (Won(t) /\ t.tried[Len(t.tried)].n = 0)
       => Len(t.tried) = Len(LexPairs(t.listProtocols, t.docs))

\* the document lists of the requests start() is called with
RequestDocuments ==
    {in.documents : in \in UNION {TaskRequests(n) : n \in 0..MaxStarts}}

\* C17: within a task getAssets is called only for reachable entries of the
\* probe result, and the calls made so far are a prefix of: reachable
\* protocols in probe order, then the documents of one request in their order.
C17_TriedInRequestOrder ==
    \A t \in active :
       /\ \A i \in 1..Len(t.tried) : t.tried[i].reachable
       /\ \E docs \in RequestDocuments :
             IsPrefix(TriedPairs(t), LexPairs(t.listProtocols, docs))

\* C18: when the request names protocols, the probe result of a task, and so
\* every getAssets call, holds only protocols of that filter.
C18_OnlyFilteredProtocols ==
    \A t \in active :
       t.inProt # <<>> =>
          /\ \A i \in 1..Len(t.listProtocols) :
                \E k \in 1..Len(t.inProt) : t.listProtocols[i].protocol = t.inProt[k]
          /\ \A i \in 1..Len(t.tried) :
                \E k \in 1..Len(t.inProt) : t.tried[i].protocol = t.inProt[k]

\* the requests sent in this step
NewSent ==
    {u.sent[Len(u.sent)] :
       u \in {v \in active' : \E t \in active : t.id = v.id /\ Len(v.sent) = Len(t.sent) + 1}}

\* the status of a new run is stored in this step (statusDiscoveryReset)
StatusReset == \E c \in Callers : callers[c].pc = "start_reset"
                                    /\ callers'[c].pc # "start_reset"

\* C19: a task whose search succeeded has sent one creation request for
\* each asset of the list, whether earlier ones failed or not, and the
\* counters change only with a request that succeeded for a known subtype:
\* then the counter of the subtype and discovered go up by one.
C19_EveryAssetPublished ==
    /\ [](\A t \in active :
            Won(t) => \A k \in 1..Len(t.outAsset) :
                         Cardinality({i \in 1..Len(t.sent) :
                              t.sent[i].kind = "asset" /\ t.sent[i].ai = k}) = 1)
    /\ [][ ~StatusReset =>
             IF \E e \in NewSent : e.ok /\ e.sub_type \in KnownSubTypes
             THEN \A e \in NewSent :
                    /\ m_statusDiscovery' =
                          UpdateStatusDiscoveryCounters(m_statusDiscovery, e.sub_type)
                    /\ m_statusDiscovery'.discovered = m_statusDiscovery.discovered + 1
                    /\ e.sub_type = "sensor" =>
                          m_statusDiscovery'.sensors = m_statusDiscovery.sensors + 1
                    /\ e.sub_type = "ups" =>
                          m_statusDiscovery'.ups = m_statusDiscovery.ups + 1
             ELSE m_statusDiscovery'.discovered = m_statusDiscovery.discovered
                  /\ m_statusDiscovery'.ups = m_statusDiscovery.ups
                  /\ m_statusDiscovery'.sensors = m_statusDiscovery.sensors ]_vars

\* a task is done whose first asset failed and whose second asset, of a
\* subtype the counters do not know, and its sensor were created: only the
\* sensor is counted
C19_Witness ==
    /\ m_statusDiscovery.discovered = 1
    /\ m_statusDiscovery.sensors = 1
    /\ \E t \in active :
         /\ t.st = "done"
         /\ Won(t)
         /\ Len(t.sent) = 3
         /\ ~t.sent[1].ok
         /\ t.sent[2].ok /\ t.sent[2].sub_type = "rack"
         /\ t.sent[3].ok /\ t.sent[3].kind = "sensor"

\* C20: every sensor request follows a successful request for the asset the
\* sensor hangs on and carries the name that request returned as parent,
\* never the empty name; a task whose search succeeded has sent one request
\* for every sensor of every asset that was created, whether earlier sensor
\* requests failed or not, and none for the sensors of the other assets.
C20_SensorsUnderCreatedAsset ==
    \A t \in active :
       /\ \A i \in 1..Len(t.sent) :
            t.sent[i].kind = "sensor" =>
               /\ t.sent[i].parent # NoName
               /\ \E j \in 1..(i - 1) :
                     /\ t.sent[j].kind = "asset"
                     /\ t.sent[j].ok
                     /\ t.sent[j].ai = t.sent[i].ai
                     /\ t.sent[j].name = t.sent[i].parent
       /\ Won(t) =>
            \A k \in 1..Len(t.outAsset) :
               Cardinality({i \in 1..Len(t.sent) :
                    t.sent[i].kind = "sensor" /\ t.sent[i].ai = k})
                 = IF \E j \in 1..Len(t.sent) :
                         t.sent[j].kind = "asset" /\ t.sent[j].ai = k /\ t.sent[j].ok
                   THEN Len(t.outAsset[k].sensors)
                   ELSE 0

\* a task is done that created the ups, failed on its first sensor, created
\* its second sensor and failed on the second asset
C20_Witness ==
    \E t \in active :
       /\ t.st = "done"
       /\ Won(t)
       /\ Len(t.sent) = 4
       /\ t.sent[1].ok /\ t.sent[1].kind = "asset"
       /\ ~t.sent[2].ok /\ t.sent[2].kind = "sensor"
       /\ t.sent[3].ok /\ t.sent[3].kind = "sensor" /\ t.sent[3].parent = t.sent[1].name
       /\ ~t.sent[4].ok /\ t.sent[4].kind = "asset"

\* a call of Protocols::run for an address other than the sentinel
RealProbe == call.fn = "run" /\ call.in.address # FakeAddress

\* C21: a probe of a real address that passed the liveness check returns one
\* entry per candidate protocol, in the order nut_powercom/443,
\* nut_xml_pdc/80, nut_snmp/161, whatever each try answered; a try that
\* fails leaves its own entry not reachable, changes no earlier entry and is
\* followed by the next try; a probe whose liveness check fails throws with
\* no entry at all.
C21_OneEntryPerCandidate ==
    /\ [](RealProbe /\ call.pc = "return" =>
            /\ call.checked
            /\ Len(call.out) = Len(Tries)
            /\ call.tried = 1..Len(Tries)
            /\ \A k \in 1..Len(Tries) :
                  /\ call.out[k].protocol = Tries[k].protocol
                  /\ call.out[k].port = Tries[k].port)
    /\ [](RealProbe /\ call.pc = "thrown" =>
            call.checked /\ call.out = <<>> /\ call.tried = {})
    /\ [][RealProbe /\ call.pc \in {"try", "write"} =>
            /\ call'.fn = "run" /\ call'.in = call.in
            /\ call'.pc \in {"try", "write", "return"}
            /\ \A k \in 1..(call.i - 1) : call'.out[k] = call.out[k]
            /\ (call'.pc = "try" /\ call.pc = "try" => call'.i = call.i + 1
                                                     /\ Len(call'.out) = call.i)
            /\ (call'.pc = "return" => Len(call'.out) = Len(Tries)) ]_vars

\* a probe returned whose first two tries failed and whose third succeeded
C21_Witness ==
    /\ RealProbe /\ call.pc = "return"
    /\ ~call.out[1].reachable /\ ~call.out[2].reachable /\ call.out[3].reachable

\* C22: a probe of the sentinel address "__fake__" returns exactly the two
\* entries (nut_snmp, 1234, reachable) and (nut_xml_pdc, 4321, not
\* reachable), in that order, on every call, without the liveness check and
\* without any try.
C22_SentinelIsFixed ==
    call.fn = "run" /\ call.in.address = FakeAddress =>
       /\ call.pc = "return"
       /\ Len(call.out) = 2
       /\ call.out[1].protocol = "nut_snmp" /\ call.out[1].port = 1234
       /\ call.out[1].reachable
       /\ call.out[2].protocol = "nut_xml_pdc" /\ call.out[2].port = 4321
       /\ ~call.out[2].reachable
       /\ ~call.checked
       /\ call.tried = {}

\* the sentinel was probed with a list of protocols, and the call returned
C22_Witness ==
    /\ call.fn = "run" /\ call.in.address = FakeAddress
    /\ call.in.protocols # <<>>
    /\ call.pc = "return"

\* the entry of the try at hand, the last of out
LastEntry(c) == c.out[Len(c.out)]

\* C23: in the SNMP probe a write that fails ends the probe at once and the
\* entry stays not reachable with availability No; when all 20 writes
\* succeed the entry is reachable with availability Maybe, never Yes.
C23_SnmpWrites ==
    [][RealProbe /\ call.pc = "write" =>
         /\ call.w < N
         /\ LastEntry(call).protocol = "nut_snmp"
         /\ IF call'.r = -1
            THEN /\ call'.pc # "write"
                 /\ call'.w = call.w
                 /\ ~LastEntry(call').reachable
                 /\ LastEntry(call').available = "No"
            ELSE /\ call'.w = call.w + 1
                 /\ IF call'.w = N
                    THEN /\ call'.pc # "write"
                         /\ LastEntry(call').reachable
                         /\ LastEntry(call').available = "Maybe"
                    ELSE /\ call'.pc = "write"
                         /\ LastEntry(call') = LastEntry(call) ]_vars

\* the SNMP try ended after 20 writes that succeeded
C23_Witness ==
    /\ RealProbe /\ call.pc = "return"
    /\ call.w = N /\ call.r # -1
    /\ LastEntry(call).protocol = "nut_snmp"
    /\ LastEntry(call).available = "Maybe"

\* C27: in the entries of a probe of a real address, reachable is false
\* exactly when the availability is No; a nut_powercom or nut_xml_pdc entry
\* is (reachable, Yes) or (not reachable, No), a nut_snmp entry is
\* (reachable, Maybe) or (not reachable, No).
C27_ReachableMatchesAvailable ==
    RealProbe =>
       \A k \in 1..Len(call.out) :
          LET e == call.out[k]
          IN  /\ ~e.reachable <=> e.available = "No"
              /\ e.protocol \in {"nut_powercom", "nut_xml_pdc"} =>
                    <<e.reachable, e.available>> \in {<<TRUE, "Yes">>, <<FALSE, "No">>}
              /\ e.protocol = "nut_snmp" =>
                    <<e.reachable, e.available>> \in {<<TRUE, "Maybe">>, <<FALSE, "No">>}

\* a probe returned that found nut_xml_pdc available and nut_snmp not
\* reachable after a write failed
C27_Witness ==
    /\ RealProbe /\ call.pc = "return"
    /\ call.out[2].reachable /\ call.out[2].available = "Yes"
    /\ ~call.out[3].reachable /\ call.out[3].available = "No"
    /\ call.r = -1

\* the pairs of a map whose key is not read_only
OtherPairs(m) == {j \in 1..Len(m) : m[j].key # "read_only"}

\* the attribute the translation derives from pair j of map m
AttributeOf(m, j) ==
    [key |-> m[j].key, value |-> m[j].value,
     readOnly |-> \E k \in 1..Len(m) : m[k].key = "read_only" /\ m[k].value = "true"]

\* C24 as stated: a map with one key other than read_only yields one output
\* attribute named by that key, with its value, read-only exactly when the
\* map has read_only = "true"; a map with no other key yields nothing.
C24_Stated ==
    [][call.fn = "updateExt" /\ call'.it = call.it + 1 =>
         LET m == call.extIn[call.it]
         IN  /\ Cardinality(OtherPairs(m)) = 1 =>
                   \E j \in OtherPairs(m) :
                      call'.extOut = Append(call.extOut, AttributeOf(m, j))
             /\ OtherPairs(m) = {} => call'.extOut = call.extOut ]_vars

\* C24: a map with one key other than read_only, that key not being the
\* empty string, yields one output attribute named by that key, with its
\* value, read-only exactly when the map has read_only = "true" wherever it
\* stands in the map; a map with no other key, or whose other key is the
\* empty string, yields nothing.
C24_ExtTranslation ==
    [][call.fn = "updateExt" /\ call'.it = call.it + 1 =>
         LET m == call.extIn[call.it]
         IN  /\ Cardinality(OtherPairs(m)) = 1 =>
                   \E j \in OtherPairs(m) :
                      call'.extOut = IF m[j].key # ""
                                     THEN Append(call.extOut, AttributeOf(m, j))
                                     ELSE call.extOut
             /\ OtherPairs(m) = {} => call'.extOut = call.extOut ]_vars

\* [{foo: bar}, {read_only: true, baz: bar}] was translated to foo, writable,
\* and baz, read-only
C24_Witness ==
    /\ call.fn = "updateExt"
    /\ call.ret = "ok"
    /\ call.extIn = << <<[key |-> "foo", value |-> "bar"]>>,
                       <<[key |-> "read_only", value |-> "true"],
                         [key |-> "baz", value |-> "bar"]>> >>
    /\ call.extOut = << [key |-> "foo", value |-> "bar", readOnly |-> FALSE],
                        [key |-> "baz", value |-> "bar", readOnly |-> TRUE] >>

\* a step of start() at lines 520-525, where readConfig() has expanded the
\* request and the two address counters are stored
CountersStep ==
    \E c \in Callers :
       callers[c].pc = "start_config" /\ callers'[c].pc # "start_config"

\* C25: in every reachable state, whatever start(), stop(), restarts and
\* task completions came before (tasks of a cancelled run that finish after
\* stop() or after a later start() included), 0 <= remaining <= total: the
\* unsigned remaining counter never wraps below zero, total changes only
\* where start() stores the counters, and remaining never grows elsewhere.
C25_RemainingWithinTotal ==
    /\ [](/\ ~Wrapped(m_listIpAddressCount)
          /\ m_listIpAddressCount <= m_listIpAddressNb)
    /\ [][ ~CountersStep =>
             /\ m_listIpAddressNb' = m_listIpAddressNb
             /\ m_listIpAddressCount' <= m_listIpAddressCount ]_vars

\* a run started after the one watchdog w belongs to has reset the status
\* (start(), lines 505-511)
Overtaken(w) ==
    \E c \in Callers : callers[c].run > w.run /\ callers[c].pc # "start_reset"

\* C26: over start(), stop(), start() cycles at most one watchdog loop is
\* alive, and a watchdog loop of an earlier run takes no part in a later
\* run: once a later run has reset the status it neither ends its poll on
\* the pool counters nor sets TERMINATED.
C26_OneWatchdog ==
    /\ [](Cardinality(watchdogs) <= 1)
    /\ [][ \A w \in watchdogs : Overtaken(w) => w \in watchdogs' ]_vars

====
